---- MODULE Spec2Model ----
(****************************************************************************)
(* HydroCare frontend (projet_ihm-main/frontend/js): the landing page and   *)
(* chat client of app.js, the disease-detection form of dashboard.js, the   *)
(* contracts page of contrats.js, the measures of parametres.js and the     *)
(* simulated login that guards them, each as the state machine of its event *)
(* handlers.                                                                *)
(* An async handler is a coroutine: the part before an await is one         *)
(* action, the part after it (run when the awaited request settles) is      *)
(* another, and the coroutines suspended at an await are kept in a set.     *)
(****************************************************************************)
EXTENDS Integers, Sequences, FiniteSets, TLC

VARIABLES
    \* ---- chat page (app.js 458-711)
    sessionId,              \* let sessionId                      app.js:467
    isWaitingForResponse,   \* let isWaitingForResponse           app.js:468
    localStorage,           \* window.localStorage, key -> value or NULL
    inputValue,             \* input.value   (#chatInput)
    inputDisabled,          \* input.disabled
    chatBox,                \* children of #chatBox, in document order
    lastMetrics,            \* evaluation-metrics block of the transcript's last message
    chatCalls,              \* sendMessage activations awaiting fetch(/api/chat)
    resetCalls,             \* reset handlers awaiting fetch(/api/reset-session)
    nextCall,               \* number of the next chat request
    nextReset,              \* number of the next reset request
    resetIds,               \* history: identifiers in memory when a reset was triggered
    \* ---- disease detection (dashboard.js 129-480)
    currentImageFile,       \* let currentImageFile                dashboard.js:152
    analyzeBtnDisabled,     \* analyzeBtn.disabled
    analyzeBtnLabel,        \* analyzeBtn.innerHTML
    health,                 \* checkBackendHealth: pending, ok or failed
    readers,                \* FileReaders whose onload has not fired yet
    preview,                \* the image shown in #uploadPreview
    results,                \* what the results panel shows
    analyzeCalls,           \* analyzeImage activations awaiting fetch(/analyze)
    nextAnalyze,            \* number of the next /analyze request
    analysisHistory,        \* localStorage hc_analysis_history, parsed
    nextStamp,              \* timestamp of the next report saved
    \* ---- contracts page (contrats.js)
    contrats,               \* state.contrats                      contrats.js:24
    contratSelectionne,     \* state.contratSelectionne (its _id)  contrats.js:25
    actionEnCours,          \* state.actionEnCours                 contrats.js:26
    liste,                  \* what #contratsListe shows
    modalHidden,            \* #confirmationModal has class hidden
    formHidden,             \* #formulaireContrat has class hidden
    detailsHidden,          \* #detailsContrat has class hidden
    notification,           \* the notification shown last
    serverContrats,         \* the contracts held by the REST service
    ctrCalls,               \* async functions of the page awaiting a fetch
    nextCtrCall,            \* number of the next request of the page
    submissions,            \* history: the list and state.contrats at each creerContrat
    \* ---- parameters page (parametres.js)
    mesuresStored,          \* localStorage hydrocare_mesures, parsed: the measures' ids
    mesures,                \* state.mesures                     parametres.js:83
    mesureAction,           \* state.actionEnCours               parametres.js:85
    historique,             \* what #historiqueMesures shows
    mesureModalHidden,      \* #confirmationModal has class hidden
    mesureFormHidden,       \* #formulaireMesure has class hidden
    mesureNotification,     \* the notification shown last
    histTimers,             \* pending 500 ms timers of chargerHistorique
    nextMesure,             \* Date.now() of the next measure saved
    \* ---- the site's pages and the landing page (app.js 1-457)
    page,                   \* the document the browser shows
    pendingNav,             \* the address given to window.location, until loaded
    redirectMsg,            \* sessionStorage hydrocare_redirect_msg
    mode,                   \* the modal: closed, or the form it shows
    inputs,                 \* value of the text inputs of the form shown
    termsChecked,           \* checked state of the terms checkbox
    ariaInvalid,            \* the controls carrying aria-invalid="true"
    errorText,              \* text of each control's .error element
    submitDisabled,         \* the submit button is disabled
    timers,                 \* pending 1500 ms timers, oldest first
    event                   \* history: the handler that ran last, with its argument

chatVars == <<sessionId, isWaitingForResponse, localStorage, inputValue,
              inputDisabled, chatBox, lastMetrics, chatCalls, resetCalls,
              nextCall, nextReset, resetIds>>

dashVars == <<currentImageFile, analyzeBtnDisabled, analyzeBtnLabel, health,
              readers, preview, results, analyzeCalls, nextAnalyze>>

contratVars == <<contrats, contratSelectionne, actionEnCours, liste, modalHidden,
                 formHidden, detailsHidden, notification, serverContrats, ctrCalls,
                 nextCtrCall, submissions>>

siteVars == <<page, pendingNav, redirectMsg, mode, inputs, termsChecked,
              ariaInvalid, errorText, submitDisabled, timers>>

reportVars == <<analysisHistory, nextStamp>>

paramVars == <<mesuresStored, mesures, mesureAction, historique, mesureModalHidden,
               mesureFormHidden, mesureNotification, histTimers, nextMesure>>

vars == <<chatVars, dashVars, reportVars, contratVars, paramVars, siteVars, event>>

\* one page is open at a time: its handlers leave the other pages alone
ChatOnly == UNCHANGED <<dashVars, reportVars, contratVars, paramVars, siteVars>>

DashOnly == UNCHANGED <<chatVars, reportVars, contratVars, paramVars, siteVars>>

ContratsOnly == UNCHANGED <<chatVars, dashVars, reportVars, paramVars, siteVars>>

ParametresOnly == UNCHANGED <<chatVars, dashVars, reportVars, contratVars, siteVars>>

----------------------------------------------------------------------------
(* Bounds of the model *)

\* chat requests issued in one run
MaxSends == 3
\* reset requests issued in one run
MaxResets == 2
\* /analyze requests issued in one run
MaxAnalyses == 2
\* requests issued by the contracts page in one run, after its first load
MaxCtrCalls == 2
\* accepted submissions of a landing-page form whose timers are pending
MaxLogins == 2
\* reports saved in one run
MaxSaves == 12
\* length of the values validateField is applied to
MaxValueLen == 6
\* measures saved by the parameters page in one run
MaxMesures == 2
\* 500 ms timers of chargerHistorique pending at a time
MaxHistTimers == 2

----------------------------------------------------------------------------
(* Values *)

\* localStorage.getItem of an absent key
NULL == "<null>"

\* the session identifier a previous visit may have left in local storage
StoredSid == "s0"

LSKeys == {"hc_session_id", "hydrocare_auth", "hydrocare_user"}

\* the questions typed or carried by a suggestion button, as character
\* sequences: empty, whitespace only, plain, and padded with whitespace
Questions == {<<>>, <<" ">>, <<"a">>, <<" ", "a">>}

\* String.prototype.trim
RECURSIVE TrimStart(_)
TrimStart(s) ==
    IF s = <<>> THEN s
    ELSE IF Head(s) = " " THEN TrimStart(Tail(s)) ELSE s

RECURSIVE TrimEnd(_)
TrimEnd(s) ==
    IF s = <<>> THEN s
    ELSE IF s[Len(s)] = " " THEN TrimEnd(SubSeq(s, 1, Len(s) - 1)) ELSE s

Trim(s) == TrimEnd(TrimStart(s))

\* a || b on strings: the empty string is falsy
OrElse(a, b) == IF a /= "" THEN a ELSE b

\* localStorage.getItem(k) || ''
GetItemOrEmpty(k) == IF localStorage[k] = NULL THEN "" ELSE localStorage[k]

\* the record kept in the history variable event
Ev(op, q, id, outcome, sid) ==
    [op |-> op, q |-> q, id |-> id, outcome |-> outcome, sid |-> sid]

----------------------------------------------------------------------------
(* Chat page: DOM helpers *)

El(kind, id) == [kind |-> kind, id |-> id]

\* Element.remove(): a no-op when the element is no longer in the document
RECURSIVE RemoveEl(_, _)
RemoveEl(box, el) ==
    IF box = <<>> THEN <<>>
    ELSE IF Head(box) = el THEN Tail(box)
    ELSE <<Head(box)>> \o RemoveEl(Tail(box), el)

CountKind(box, kind) == Cardinality({i \in 1..Len(box) : box[i].kind = kind})

----------------------------------------------------------------------------
(* Chat page: the /api/chat and /api/reset-session services *)

ChatOutcomes == {"ok", "http_error", "network_error", "bad_json"}

ChatFailures == ChatOutcomes \ {"ok"}

ResetOutcomes == {"ok", "http_error", "network_error"}

\* session_id of a successful /api/chat response: the request's identifier
\* echoed, a new identifier when the request carried none, or no identifier
ServerSessionIds(c) ==
    {""} \cup {IF c.session_id /= "" THEN c.session_id
                                     ELSE "s" \o ToString(c.id)}

\* a score of the response: a number, or undefined when the key is absent
Score(v) == [defined |-> TRUE, value |-> v]

Undefined == [defined |-> FALSE, value |-> 0]

\* faithfulness and completeness of a successful /api/chat response: each
\* absent, or a whole number from 1 to 5
ServerScores ==
    {<<Undefined, Undefined>>, <<Undefined, Score(5)>>, <<Score(1), Undefined>>,
     <<Score(1), Score(5)>>, <<Score(3), Score(3)>>}

----------------------------------------------------------------------------
(* Chat page: appendMessage *)

\* undefined and 0 are falsy
Falsy(x) == ~x.defined \/ x.value = 0

\* mutant: the score is interpolated as it is, undefined included
OrNARaw(x) == IF x.defined THEN ToString(x.value) ELSE "undefined"

\* mutant: the score is shown as a percentage of the maximum
OrNAPercent(x) == IF Falsy(x) THEN "N/A" ELSE ToString(20 * x.value)

\* ${x || 'N/A'} in the template literal
OrNA(x) == IF Falsy(x) THEN "N/A" ELSE ToString(x.value)

\* a message without evaluation-metrics block
NoMetrics ==
    [from |-> <<Undefined, Undefined>>, shown |-> FALSE,
     faithfulness |-> "", completeness |-> ""]

\* the evaluation-metrics block appendMessage renders from metadata, with
\* the scores it was given
Metrics(f, c) ==
    IF f.defined \/ c.defined
    THEN [from |-> <<f, c>>, shown |-> TRUE,
          faithfulness |-> OrNA(f), completeness |-> OrNA(c)]
    ELSE NoMetrics

----------------------------------------------------------------------------
(* Chat page: sendMessage *)

\* mutant: the guard without the busy flag
SendGuardNoBusy(question) == Trim(question) /= <<>>

\* mutant: the guard tests the question without trimming it
SendGuardNoTrim(question) == question /= <<>> /\ ~isWaitingForResponse

\* if (!question.trim() || isWaitingForResponse) return;
SendGuard(question) == Trim(question) /= <<>> /\ ~isWaitingForResponse

\* sendMessage(question) up to its await fetch(...)
SendMessage(question) ==
    IF SendGuard(question)
    THEN /\ isWaitingForResponse' = TRUE
         /\ inputDisabled' = TRUE
         /\ chatBox' = chatBox \o <<El("user", nextCall), El("typing", nextCall)>>
         /\ lastMetrics' = NoMetrics
         /\ chatCalls' = chatCalls \cup
                {[id |-> nextCall, question |-> question, session_id |-> sessionId]}
         /\ nextCall' = nextCall + 1
         /\ UNCHANGED <<sessionId, localStorage, resetCalls, nextReset, resetIds>>
    ELSE UNCHANGED <<sessionId, isWaitingForResponse, localStorage, inputDisabled,
                     chatBox, lastMetrics, chatCalls, resetCalls, nextCall, nextReset,
                     resetIds>>

\* mutant: the response's field is read under a name it does not have
\* (data.sessionId), so the identifier in memory is always kept
NewSessionIdWrongField(data_sid) == OrElse("", sessionId)

\* sessionId = data.session_id || sessionId
NewSessionId(data_sid) == OrElse(data_sid, sessionId)

\* the try block after the awaits: the response is ok and its body is JSON
\* with the scores data.faithfulness and data.completeness
ChatSuccess(c, data_sid, scores) ==
    /\ sessionId' = NewSessionId(data_sid)
    /\ localStorage' = [localStorage EXCEPT !["hc_session_id"] = sessionId']
    /\ chatBox' = Append(RemoveEl(chatBox, El("typing", c.id)), El("bot", c.id))
    /\ lastMetrics' = Metrics(scores[1], scores[2])

\* mutant: the catch block also runs localStorage.setItem('hc_session_id', sessionId)
ChatCatchStores(c) ==
    /\ chatBox' = Append(RemoveEl(chatBox, El("typing", c.id)), El("error", c.id))
    /\ lastMetrics' = NoMetrics
    /\ localStorage' = [localStorage EXCEPT !["hc_session_id"] = sessionId]
    /\ UNCHANGED sessionId

\* the catch block: fetch rejected, !res.ok, or res.json() rejected
ChatCatch(c) ==
    /\ chatBox' = Append(RemoveEl(chatBox, El("typing", c.id)), El("error", c.id))
    /\ lastMetrics' = NoMetrics
    /\ UNCHANGED <<sessionId, localStorage>>

\* mutant: the finally block enables the field again but does not clear the flag
ChatFinallyKeepsFlag ==
    /\ UNCHANGED isWaitingForResponse
    /\ inputDisabled' = FALSE

\* the finally block
ChatFinally ==
    /\ isWaitingForResponse' = FALSE
    /\ inputDisabled' = FALSE

\* sendMessage from the moment its request settles
ChatSettle(c, outcome, data_sid, scores) ==
    /\ IF outcome = "ok" THEN ChatSuccess(c, data_sid, scores) ELSE ChatCatch(c)
    /\ ChatFinally
    /\ chatCalls' = chatCalls \ {c}
    /\ UNCHANGED <<inputValue, resetCalls, nextCall, nextReset, resetIds>>
    /\ event' = Ev("chat_settled", c.question, c.id, outcome, data_sid)
    /\ ChatOnly

ChatResponse ==
    \E c \in chatCalls : \E data_sid \in ServerSessionIds(c) :
        \E scores \in ServerScores :
            ChatSettle(c, "ok", data_sid, scores)

ChatError ==
    \E c \in chatCalls : \E outcome \in ChatFailures :
        ChatSettle(c, outcome, "", <<Undefined, Undefined>>)

----------------------------------------------------------------------------
(* Chat page: user events *)

\* the user edits the question field
TypeInput ==
    /\ ~inputDisabled
    /\ \E q \in Questions :
         /\ q /= inputValue
         /\ inputValue' = q
         /\ event' = Ev("type", q, 0, "", "")
    /\ ChatOnly
    /\ UNCHANGED <<sessionId, isWaitingForResponse, localStorage, inputDisabled,
                   chatBox, lastMetrics, chatCalls, resetCalls, nextCall, nextReset,
                   resetIds>>

\* form 'submit' listener
SubmitHandler(op) ==
    /\ nextCall <= MaxSends
    /\ LET question == Trim(inputValue) IN
         IF question = <<>>
         THEN UNCHANGED chatVars
         ELSE inputValue' = <<>> /\ SendMessage(question)
    /\ event' = Ev(op, inputValue, 0, "", "")
    /\ ChatOnly

\* the form's submit button
FormSubmit == SubmitHandler("submit")

\* input 'keydown' listener: Enter dispatches a submit event on the form
EnterKey == ~inputDisabled /\ SubmitHandler("enter")

\* suggestion button 'click' listener
SuggestionClick ==
    /\ nextCall <= MaxSends
    /\ \E q \in Questions :
         /\ IF q /= <<>> THEN SendMessage(q)
                         ELSE UNCHANGED <<sessionId, isWaitingForResponse, localStorage,
                                          inputDisabled, chatBox, lastMetrics,
                                          chatCalls, resetCalls,
                                          nextCall, nextReset, resetIds>>
         /\ event' = Ev("suggestion", q, 0, "", "")
    /\ UNCHANGED inputValue
    /\ ChatOnly

----------------------------------------------------------------------------
(* Chat page: session reset *)

\* "Reinitialiser localement" and what follows it
ResetLocal ==
    /\ sessionId' = ""
    /\ localStorage' = [localStorage EXCEPT !["hc_session_id"] = NULL]
    /\ chatBox' = <<>>
    /\ lastMetrics' = NoMetrics

\* mutant: the fetch of the reset handler is not wrapped in try/catch
ResetContinuesUncaught(outcome) == outcome /= "network_error"

\* whether the handler goes on after its request settled with this outcome:
\* fetch resolves on an error status and its rejection is caught
ResetContinues(outcome) == TRUE

\* resetSession 'click' listener up to its await, or to its end when there
\* is no session to reset
ResetClick ==
    /\ IF sessionId /= ""
       THEN /\ nextReset <= MaxResets
            /\ resetCalls' = resetCalls \cup {[id |-> nextReset, session_id |-> sessionId]}
            /\ nextReset' = nextReset + 1
            /\ resetIds' = resetIds \cup {sessionId}
            /\ event' = Ev("reset_click", <<>>, nextReset, "", sessionId)
            /\ UNCHANGED <<sessionId, isWaitingForResponse, localStorage, inputValue,
                           inputDisabled, chatBox, lastMetrics, chatCalls, nextCall>>
       ELSE /\ ResetLocal
            /\ event' = Ev("reset_done", <<>>, 0, "no_request", "")
            /\ UNCHANGED <<isWaitingForResponse, inputValue, inputDisabled, chatCalls,
                           resetCalls, nextCall, nextReset, resetIds>>
    /\ ChatOnly

\* the reset listener from the moment its request settles
ResetSettle ==
    \E r \in resetCalls : \E outcome \in ResetOutcomes :
        /\ IF ResetContinues(outcome)
           THEN ResetLocal
           ELSE UNCHANGED <<sessionId, localStorage, chatBox, lastMetrics>>
        /\ resetCalls' = resetCalls \ {r}
        /\ event' = Ev("reset_done", <<>>, r.id, outcome, r.session_id)
        /\ UNCHANGED <<isWaitingForResponse, inputValue, inputDisabled, chatCalls,
                       nextCall, nextReset, resetIds>>
        /\ ChatOnly

----------------------------------------------------------------------------
(* Chat page: specification *)

InitChat ==
    /\ \E stored \in {NULL, "", StoredSid} :
         /\ localStorage = [k \in LSKeys |->
                IF k = "hc_session_id" THEN stored
                ELSE IF k = "hydrocare_auth" THEN "1" ELSE "user"]
         /\ sessionId = GetItemOrEmpty("hc_session_id")
    /\ isWaitingForResponse = FALSE
    /\ inputValue = <<>>
    /\ inputDisabled = FALSE
    /\ chatBox = <<>>
    /\ lastMetrics = NoMetrics
    /\ chatCalls = {}
    /\ resetCalls = {}
    /\ nextCall = 1
    /\ nextReset = 1
    /\ resetIds = {}


NextChat ==
    \/ TypeInput
    \/ FormSubmit
    \/ EnterKey
    \/ SuggestionClick
    \/ ChatResponse
    \/ ChatError
    \/ ResetClick
    \/ ResetSettle


----------------------------------------------------------------------------
(* Disease detection: values *)

\* file.size > 10 * 1024 * 1024
MaxImageBytes == 10 * 1024 * 1024

File(name, size, type) == [name |-> name, size |-> size, type |-> type]

\* currentImageFile = null
NoFile == File("", 0, "")

\* the files the user can pick or drop: a small image, an image of exactly
\* the limit, an image one byte over it, and a file that is no image
Files ==
    { File("leaf.png", 1024, "image/png"),
      File("limit.png", MaxImageBytes, "image/png"),
      File("big.png", MaxImageBytes + 1, "image/png"),
      File("notes.txt", 1024, "text/plain") }

\* file.type.startsWith('image/')
IsImageType(type) == type \in {"image/png", "image/jpeg", "image/webp"}

HealthOutcomes == {"ok_loaded", "ok_not_loaded", "http_error", "network_error"}

AnalyzeOutcomes == {"ok", "http_error", "network_error"}

\* the results panel: the placeholder, an error, or the result of an image
Panel(kind, image) == [kind |-> kind, image |-> image]

\* showError(message)
ShowError == results' = Panel("error", "")

----------------------------------------------------------------------------
(* Disease detection: health probe *)

\* checkBackendHealth from the moment its request settles
HealthSettle ==
    /\ health = "pending"
    /\ \E outcome \in HealthOutcomes :
         /\ IF outcome = "ok_loaded"
            THEN /\ health' = "ok"
                 /\ UNCHANGED <<analyzeBtnDisabled, analyzeBtnLabel, results>>
            ELSE /\ health' = "failed"
                 /\ analyzeBtnDisabled' = TRUE
                 /\ analyzeBtnLabel' = "unavailable"
                 /\ ShowError
         /\ event' = Ev("health", <<>>, 0, outcome, "")
    /\ UNCHANGED <<currentImageFile, readers, preview, analyzeCalls, nextAnalyze>>
    /\ DashOnly

----------------------------------------------------------------------------
(* Disease detection: image selection *)

\* mutant: the limit is written as 100MB
TooLargeHundred(size) == size > 100 * 1024 * 1024

\* if (file.size > 10 * 1024 * 1024)
TooLarge(size) == size > MaxImageBytes

\* handleImageFile(file) up to reader.readAsDataURL(file)
HandleImageFile(file) ==
    IF TooLarge(file.size)
    THEN /\ ShowError
         /\ UNCHANGED <<currentImageFile, readers>>
    ELSE /\ currentImageFile' = file
         /\ readers' = readers \cup {file}
         /\ UNCHANGED results

\* handleImageSelect and handleDrop: only an image reaches handleImageFile
HandleImageEvent(op) ==
    /\ \E file \in Files :
         /\ IF IsImageType(file.type)
            THEN HandleImageFile(file)
            ELSE UNCHANGED <<currentImageFile, readers, results>>
         /\ event' = Ev(op, <<>>, 0, "", file.name)
    /\ UNCHANGED <<analyzeBtnDisabled, analyzeBtnLabel, health, preview,
                   analyzeCalls, nextAnalyze>>
    /\ DashOnly

\* imageInput 'change' listener
ImageSelect == HandleImageEvent("select")

\* uploadZone 'drop' listener
ImageDrop == HandleImageEvent("drop")

\* reader.onload
ReaderLoad ==
    \E file \in readers :
        /\ preview' = file
        /\ analyzeBtnDisabled' = FALSE
        /\ readers' = readers \ {file}
        /\ event' = Ev("reader_load", <<>>, 0, "", file.name)
        /\ UNCHANGED <<currentImageFile, analyzeBtnLabel, health, results,
                       analyzeCalls, nextAnalyze>>
        /\ DashOnly

----------------------------------------------------------------------------
(* Disease detection: analysis *)

\* analyzeBtn 'click' listener (a disabled button fires no click), up to
\* its await fetch(...)
AnalyzeClick ==
    /\ ~analyzeBtnDisabled
    /\ nextAnalyze <= MaxAnalyses
    /\ IF currentImageFile = NoFile
       THEN /\ ShowError
            /\ UNCHANGED <<analyzeBtnDisabled, analyzeBtnLabel, analyzeCalls, nextAnalyze>>
       ELSE /\ analyzeBtnLabel' = "busy"
            /\ analyzeBtnDisabled' = TRUE
            /\ analyzeCalls' = analyzeCalls \cup
                   {[id |-> nextAnalyze, image |-> currentImageFile]}
            /\ nextAnalyze' = nextAnalyze + 1
            /\ UNCHANGED results
    /\ event' = Ev("analyze_click", <<>>, nextAnalyze, "", currentImageFile.name)
    /\ UNCHANGED <<currentImageFile, health, readers, preview>>
    /\ DashOnly

\* analyzeImage from the moment its request settles
AnalyzeSettle ==
    \E a \in analyzeCalls : \E outcome \in AnalyzeOutcomes :
        /\ IF outcome = "ok"
           THEN results' = Panel("result", a.image.name)
           ELSE ShowError
        /\ analyzeBtnLabel' = "analyze"
        /\ analyzeBtnDisabled' = FALSE
        /\ analyzeCalls' = analyzeCalls \ {a}
        /\ event' = Ev("analyze_settled", <<>>, a.id, outcome, a.image.name)
        /\ UNCHANGED <<currentImageFile, health, readers, preview, nextAnalyze>>
        /\ DashOnly

----------------------------------------------------------------------------
(* Disease detection: saved reports *)

\* history.slice(0, 10)
HistoryCap == 10

\* Array.prototype.slice(0, n)
Slice(s, n) == SubSeq(s, 1, IF Len(s) < n THEN Len(s) ELSE n)

\* mutant: history.push(report) instead of history.unshift(report)
HistoryAfterSavePushed(history, report) == Slice(Append(history, report), HistoryCap)

\* history.unshift(report); ... history.slice(0, 10)
HistoryAfterSave(history, report) == Slice(<<report>> \o history, HistoryCap)

\* saveReportBtn 'click' listener; the clock gives each report a later
\* timestamp than the one before; disease and shown stand for the texts of
\* diseaseName and confidenceValue: what the panel shows, and the image whose
\* analysis it shows
SaveReport ==
    /\ nextStamp <= MaxSaves
    /\ IF currentImageFile = NoFile
       THEN /\ event' = Ev("saveReport", <<>>, 0, "alert", "")
            /\ UNCHANGED reportVars
       ELSE /\ analysisHistory' = HistoryAfterSave(analysisHistory,
                    [image |-> currentImageFile.name, disease |-> results.kind,
                     shown |-> results.image, timestamp |-> nextStamp])
            /\ nextStamp' = nextStamp + 1
            /\ event' = Ev("saveReport", <<>>, nextStamp, "saved", currentImageFile.name)
    /\ UNCHANGED <<dashVars, chatVars, contratVars, paramVars, siteVars>>

InitDash ==
    /\ analysisHistory = <<>>
    /\ nextStamp = 1
    /\ currentImageFile = NoFile
    /\ analyzeBtnDisabled = TRUE
    /\ analyzeBtnLabel = "analyze"
    /\ health = "pending"
    /\ readers = {}
    /\ preview = NoFile
    /\ results = Panel("placeholder", "")
    /\ analyzeCalls = {}
    /\ nextAnalyze = 1

NextDash ==
    \/ HealthSettle
    \/ ImageSelect
    \/ ImageDrop
    \/ ReaderLoad
    \/ AnalyzeClick
    \/ AnalyzeSettle

\* the listeners that take part in saving reports
NextReports ==
    \/ ImageSelect
    \/ SaveReport

----------------------------------------------------------------------------
(* Contracts page: values *)

Contrat(id, statut) == [_id |-> id, statut |-> statut]

\* state.contratSelectionne = null
NoContrat == 0

\* state.actionEnCours = null
NoAction == [type |-> "", id |-> 0, statut |-> ""]

Notif(type, message) == [type |-> type, message |-> message]

\* an async function suspended at a fetch: fn is the handler, stage the
\* await it is at, verb and target the request it issued
Call(id, fn, stage, verb, target, action) ==
    [id |-> id, fn |-> fn, stage |-> stage, verb |-> verb, target |-> target,
     action |-> action]

\* outcomes of a fetch whose JSON body is read: success true, success false
\* (whatever the status), or a rejection of fetch or of response.json()
JsonOutcomes == {"success", "refused", "network_error"}

\* outcomes of a fetch whose response is not read: a success status, an
\* error status, or a rejection
PlainOutcomes == {"ok", "http_error", "network_error"}

\* the requests that change the contracts held by the service
MutatingVerbs == {"POST", "DELETE", "PUT"}

\* afficherContrats(): the empty state or one card per contract
Rendered(list) ==
    IF list = {} THEN [kind |-> "empty", items |-> {}]
                 ELSE [kind |-> "list", items |-> list]

\* afficherChargement(message)
Loading == [kind |-> "loading", items |-> {}]

\* afficherErreur(message)
ErrorState == [kind |-> "error", items |-> {}]

\* what the service holds after it has carried out a request
Served(c) ==
    IF c.verb = "POST"
    THEN serverContrats \cup {Contrat(c.id + 1, "actif")}
    ELSE IF c.verb = "DELETE"
    THEN {k \in serverContrats : k._id /= c.target}
    ELSE IF c.verb = "PUT"
    THEN {IF k._id = c.target THEN Contrat(k._id, c.action.statut) ELSE k :
             k \in serverContrats}
    ELSE serverContrats

----------------------------------------------------------------------------
(* Contracts page: chargerContrats *)

\* chargerContrats() from the moment its request settles
ChargerContratsDone(outcome) ==
    IF outcome = "success"
    THEN /\ contrats' = serverContrats
         /\ liste' = Rendered(serverContrats)
    ELSE /\ liste' = ErrorState
         /\ UNCHANGED contrats

\* the "Reessayer" button of the error state calls chargerContrats()
RetryClick ==
    /\ liste.kind = "error"
    /\ nextCtrCall <= MaxCtrCalls
    /\ liste' = Loading
    /\ ctrCalls' = ctrCalls \cup
           {Call(nextCtrCall, "chargerContrats", "fetch", "GET", 0, NoAction)}
    /\ nextCtrCall' = nextCtrCall + 1
    /\ event' = Ev("retry", <<>>, nextCtrCall, "", "")
    /\ UNCHANGED <<contrats, contratSelectionne, actionEnCours, modalHidden,
                   formHidden, detailsHidden, notification, serverContrats>>
    /\ UNCHANGED submissions
    /\ ContratsOnly

\* a chargerContrats() called on its own (page load, retry) settles
LoadSettle ==
    \E c \in ctrCalls : \E outcome \in JsonOutcomes :
        /\ c.fn = "chargerContrats"
        /\ ChargerContratsDone(outcome)
        /\ ctrCalls' = ctrCalls \ {c}
        /\ event' = Ev("load_settled", <<>>, c.id, outcome, "")
        /\ UNCHANGED <<contratSelectionne, actionEnCours, modalHidden, formHidden,
                       detailsHidden, notification, serverContrats, nextCtrCall>>
        /\ UNCHANGED submissions
        /\ ContratsOnly

----------------------------------------------------------------------------
(* Contracts page: creerContrat *)

\* afficherFormulaire(): the "Nouveau contrat" button
AfficherFormulaire ==
    /\ formHidden
    /\ formHidden' = FALSE
    /\ event' = Ev("afficherFormulaire", <<>>, 0, "", "")
    /\ UNCHANGED <<contrats, contratSelectionne, actionEnCours, liste, modalHidden,
                   detailsHidden, notification, serverContrats, ctrCalls, nextCtrCall>>
    /\ UNCHANGED submissions
    /\ ContratsOnly

\* cacherFormulaire(): the close and cancel buttons of the form
CacherFormulaire ==
    /\ ~formHidden
    /\ formHidden' = TRUE
    /\ event' = Ev("cacherFormulaire", <<>>, 0, "", "")
    /\ UNCHANGED <<contrats, contratSelectionne, actionEnCours, liste, modalHidden,
                   detailsHidden, notification, serverContrats, ctrCalls, nextCtrCall>>
    /\ UNCHANGED submissions
    /\ ContratsOnly

\* creerContrat(e), the form's submit listener, up to its await fetch(...)
CreerContrat ==
    /\ ~formHidden
    /\ nextCtrCall <= MaxCtrCalls
    /\ liste' = Loading
    /\ ctrCalls' = ctrCalls \cup
           {Call(nextCtrCall, "creerContrat", "fetch", "POST", 0, NoAction)}
    /\ nextCtrCall' = nextCtrCall + 1
    /\ event' = Ev("creerContrat", <<>>, nextCtrCall, "", "")
    /\ UNCHANGED <<contrats, contratSelectionne, actionEnCours, modalHidden,
                   formHidden, detailsHidden, notification, serverContrats>>
    /\ submissions' = submissions \cup
           {[id |-> nextCtrCall, liste |-> liste, contrats |-> contrats,
             alone |-> ctrCalls = {}]}
    /\ ContratsOnly

\* creerContrat from the moment its POST settles: on success it hides the
\* form and awaits chargerContrats(), otherwise it shows the error
CreerContratSettle ==
    \E c \in ctrCalls : \E outcome \in JsonOutcomes :
        /\ c.fn = "creerContrat" /\ c.stage = "fetch"
        /\ IF outcome = "success"
           THEN /\ serverContrats' = Served(c)
                /\ formHidden' = TRUE
                /\ liste' = Loading
                /\ ctrCalls' = (ctrCalls \ {c}) \cup
                       {Call(c.id, "creerContrat", "reload", "GET", 0, NoAction)}
                /\ UNCHANGED notification
           ELSE /\ notification' = Notif("error", "creation")
                /\ ctrCalls' = ctrCalls \ {c}
                /\ UNCHANGED <<serverContrats, formHidden, liste>>
        /\ event' = Ev("create_settled", <<>>, c.id, outcome, "")
        /\ UNCHANGED <<contrats, contratSelectionne, actionEnCours, modalHidden,
                       detailsHidden, nextCtrCall>>
        /\ UNCHANGED submissions
        /\ ContratsOnly

\* creerContrat from the moment its chargerContrats() settles
CreerContratReloaded ==
    \E c \in ctrCalls : \E outcome \in JsonOutcomes :
        /\ c.fn = "creerContrat" /\ c.stage = "reload"
        /\ ChargerContratsDone(outcome)
        /\ notification' = Notif("success", "creation")
        /\ ctrCalls' = ctrCalls \ {c}
        /\ event' = Ev("create_done", <<>>, c.id, outcome, "")
        /\ UNCHANGED <<contratSelectionne, actionEnCours, modalHidden, formHidden,
                       detailsHidden, serverContrats, nextCtrCall>>
        /\ UNCHANGED submissions
        /\ ContratsOnly

----------------------------------------------------------------------------
(* Contracts page: details of a contract *)

\* afficherDetailsContrat(contratId), the click on a contract card, up to
\* its await fetch(...)
AfficherDetailsContrat ==
    /\ liste.kind = "list"
    /\ nextCtrCall <= MaxCtrCalls
    /\ \E k \in liste.items :
         /\ ctrCalls' = ctrCalls \cup
                {Call(nextCtrCall, "afficherDetailsContrat", "fetch", "GET", k._id, NoAction)}
         /\ event' = Ev("afficherDetailsContrat", <<>>, nextCtrCall, "", "")
    /\ nextCtrCall' = nextCtrCall + 1
    /\ UNCHANGED <<contrats, contratSelectionne, actionEnCours, liste, modalHidden,
                   formHidden, detailsHidden, notification, serverContrats>>
    /\ UNCHANGED submissions
    /\ ContratsOnly

\* afficherDetailsContrat from the moment its request settles; the service
\* answers success only for a contract it holds
DetailsSettle ==
    \E c \in ctrCalls : \E outcome \in JsonOutcomes :
        /\ c.fn = "afficherDetailsContrat"
        /\ outcome = "success" => \E k \in serverContrats : k._id = c.target
        /\ IF outcome = "success"
           THEN /\ contratSelectionne' = c.target
                /\ detailsHidden' = FALSE
                /\ UNCHANGED notification
           ELSE /\ notification' = Notif("error", "details")
                /\ UNCHANGED <<contratSelectionne, detailsHidden>>
        /\ ctrCalls' = ctrCalls \ {c}
        /\ event' = Ev("details_settled", <<>>, c.id, outcome, "")
        /\ UNCHANGED <<contrats, actionEnCours, liste, modalHidden, formHidden,
                       serverContrats, nextCtrCall>>
        /\ UNCHANGED submissions
        /\ ContratsOnly

\* cacherDetails(): the close button of the details panel
CacherDetails ==
    /\ ~detailsHidden
    /\ detailsHidden' = TRUE
    /\ contratSelectionne' = NoContrat
    /\ event' = Ev("cacherDetails", <<>>, 0, "", "")
    /\ UNCHANGED <<contrats, actionEnCours, liste, modalHidden, formHidden,
                   notification, serverContrats, ctrCalls, nextCtrCall>>
    /\ UNCHANGED submissions
    /\ ContratsOnly

----------------------------------------------------------------------------
(* Contracts page: delete and status change *)

\* supprimerContrat(contratId): the "Supprimer" button of a card
SupprimerContrat ==
    /\ liste.kind = "list"
    /\ \E k \in liste.items :
         /\ actionEnCours' = [type |-> "supprimer", id |-> k._id, statut |-> ""]
         /\ event' = Ev("supprimerContrat", <<>>, k._id, "", "")
    /\ modalHidden' = FALSE
    /\ UNCHANGED <<contrats, contratSelectionne, liste, formHidden, detailsHidden,
                   notification, serverContrats, ctrCalls, nextCtrCall>>
    /\ UNCHANGED submissions
    /\ ContratsOnly

\* marquerComplet(contratId): the "Terminer" / "Reactiver" button of a card
MarquerComplet ==
    /\ liste.kind = "list"
    /\ \E k \in liste.items :
         LET contrat == CHOOSE x \in contrats : x._id = k._id
             nouveauStatut == IF contrat.statut = "actif" THEN "termine" ELSE "actif"
         IN /\ actionEnCours' =
                   [type |-> "changerStatut", id |-> k._id, statut |-> nouveauStatut]
            /\ event' = Ev("marquerComplet", <<>>, k._id, "", "")
    /\ modalHidden' = FALSE
    /\ UNCHANGED <<contrats, contratSelectionne, liste, formHidden, detailsHidden,
                   notification, serverContrats, ctrCalls, nextCtrCall>>
    /\ UNCHANGED submissions
    /\ ContratsOnly

\* fermerModal(): the cancel button of the modal and a click outside it
FermerModal ==
    /\ ~modalHidden
    /\ modalHidden' = TRUE
    /\ actionEnCours' = NoAction
    /\ event' = Ev("fermerModal", <<>>, 0, "", "")
    /\ UNCHANGED <<contrats, contratSelectionne, liste, formHidden, detailsHidden,
                   notification, serverContrats, ctrCalls, nextCtrCall>>
    /\ UNCHANGED submissions
    /\ ContratsOnly

\* executerAction(), the confirm button's click listener, up to its await
ExecuterAction ==
    /\ nextCtrCall <= MaxCtrCalls
    /\ IF actionEnCours = NoAction
       THEN UNCHANGED <<ctrCalls, nextCtrCall>>
       ELSE /\ ctrCalls' = ctrCalls \cup
                   {Call(nextCtrCall, "executerAction", "fetch",
                         IF actionEnCours.type = "supprimer" THEN "DELETE" ELSE "PUT",
                         actionEnCours.id, actionEnCours)}
            /\ nextCtrCall' = nextCtrCall + 1
    /\ event' = Ev("executerAction", <<>>, nextCtrCall, "", actionEnCours.type)
    /\ UNCHANGED <<contrats, contratSelectionne, actionEnCours, liste, modalHidden,
                   formHidden, detailsHidden, notification, serverContrats>>
    /\ UNCHANGED submissions
    /\ ContratsOnly

\* executerAction from the moment its DELETE or PUT settles: the response
\* is not read, so any status is announced as a success, the modal is
\* closed and chargerContrats() is awaited; a rejection is caught
ExecuterSettle ==
    \E c \in ctrCalls : \E outcome \in PlainOutcomes :
        /\ c.fn = "executerAction" /\ c.stage = "fetch"
        /\ IF outcome = "network_error"
           THEN /\ notification' = Notif("error", "operation")
                /\ ctrCalls' = ctrCalls \ {c}
                /\ UNCHANGED <<serverContrats, modalHidden, actionEnCours, liste>>
           ELSE /\ serverContrats' = IF outcome = "ok" THEN Served(c) ELSE serverContrats
                /\ notification' = Notif("success", c.action.type)
                /\ modalHidden' = TRUE
                /\ actionEnCours' = NoAction
                /\ liste' = Loading
                /\ ctrCalls' = (ctrCalls \ {c}) \cup
                       {Call(c.id, "executerAction", "reload", "GET", c.target, c.action)}
        /\ event' = Ev("action_settled", <<>>, c.id, outcome, c.action.type)
        /\ UNCHANGED <<contrats, contratSelectionne, formHidden, detailsHidden,
                       nextCtrCall>>
        /\ UNCHANGED submissions
        /\ ContratsOnly

\* executerAction from the moment its chargerContrats() settles: it reads
\* state.actionEnCours.id when a contract is selected, which throws when
\* the action is null, and the catch block shows the error
ExecuterReloaded ==
    \E c \in ctrCalls : \E outcome \in JsonOutcomes :
        /\ c.fn = "executerAction" /\ c.stage = "reload"
        /\ ChargerContratsDone(outcome)
        /\ IF contratSelectionne = NoContrat
           THEN UNCHANGED <<contratSelectionne, detailsHidden, notification>>
           ELSE IF actionEnCours = NoAction
           THEN /\ notification' = Notif("error", "operation")
                /\ UNCHANGED <<contratSelectionne, detailsHidden>>
           ELSE IF contratSelectionne = actionEnCours.id
           THEN /\ detailsHidden' = TRUE
                /\ contratSelectionne' = NoContrat
                /\ UNCHANGED notification
           ELSE UNCHANGED <<contratSelectionne, detailsHidden, notification>>
        /\ ctrCalls' = ctrCalls \ {c}
        /\ event' = Ev("action_done", <<>>, c.id, outcome, c.action.type)
        /\ UNCHANGED <<actionEnCours, modalHidden, formHidden, serverContrats,
                       nextCtrCall>>
        /\ UNCHANGED submissions
        /\ ContratsOnly

\* the page once initialiserApp() has run: chargerContrats() is awaiting
InitContrats ==
    /\ contrats = {}
    /\ contratSelectionne = NoContrat
    /\ actionEnCours = NoAction
    /\ liste = Loading
    /\ modalHidden = TRUE
    /\ formHidden = TRUE
    /\ detailsHidden = TRUE
    /\ notification = Notif("", "")
    /\ serverContrats = {Contrat(1, "actif")}
    /\ ctrCalls = {Call(0, "chargerContrats", "fetch", "GET", 0, NoAction)}
    /\ nextCtrCall = 1
    /\ submissions = {}

NextContrats ==
    \/ RetryClick
    \/ LoadSettle
    \/ AfficherFormulaire
    \/ CacherFormulaire
    \/ CreerContrat
    \/ CreerContratSettle
    \/ CreerContratReloaded
    \/ AfficherDetailsContrat
    \/ DetailsSettle
    \/ CacherDetails
    \/ SupprimerContrat
    \/ MarquerComplet
    \/ FermerModal
    \/ ExecuterAction
    \/ ExecuterSettle
    \/ ExecuterReloaded

----------------------------------------------------------------------------
(* Parameters page: measures kept in local storage and their deletion *)

\* chargerHistorique(): the loading state is drawn and the 500 ms timer set
ChargerHistorique ==
    /\ historique' = [kind |-> "loading", items |-> <<>>]
    /\ histTimers' = histTimers + 1

\* #rafraichirHistorique 'click' listener
RafraichirHistorique ==
    /\ histTimers < MaxHistTimers
    /\ ChargerHistorique
    /\ event' = Ev("mesure:rafraichir", <<>>, 0, "", "")
    /\ UNCHANGED <<mesuresStored, mesures, mesureAction, mesureModalHidden,
                   mesureFormHidden, mesureNotification, nextMesure>>
    /\ ParametresOnly

\* the callback of chargerHistorique's timer: state.mesures and the list
\* are read from local storage
HistoriqueTimer ==
    /\ histTimers > 0
    /\ histTimers' = histTimers - 1
    /\ mesures' = mesuresStored
    /\ historique' = [kind |-> IF mesuresStored = <<>> THEN "empty" ELSE "list",
                      items |-> mesuresStored]
    /\ event' = Ev("mesure:historique", <<>>, 0, "", "")
    /\ UNCHANGED <<mesuresStored, mesureAction, mesureModalHidden, mesureFormHidden,
                   mesureNotification, nextMesure>>
    /\ ParametresOnly

\* afficherFormulaire(): the "Nouvelle mesure" button
AfficherFormulaireMesure ==
    /\ mesureFormHidden
    /\ mesureFormHidden' = FALSE
    /\ event' = Ev("mesure:afficherFormulaire", <<>>, 0, "", "")
    /\ UNCHANGED <<mesuresStored, mesures, mesureAction, historique,
                   mesureModalHidden, mesureNotification, histTimers, nextMesure>>
    /\ ParametresOnly

\* cacherFormulaire(): the close and cancel buttons of the form
CacherFormulaireMesure ==
    /\ ~mesureFormHidden
    /\ mesureFormHidden' = TRUE
    /\ event' = Ev("mesure:cacherFormulaire", <<>>, 0, "", "")
    /\ UNCHANGED <<mesuresStored, mesures, mesureAction, historique,
                   mesureModalHidden, mesureNotification, histTimers, nextMesure>>
    /\ ParametresOnly

\* analyserParametres(e), the form's submit listener: sauvegarderMesure puts
\* the new measure, whose id is the clock's value, first in local storage;
\* the list drawn is left as it is
AnalyserParametres ==
    /\ ~mesureFormHidden
    /\ nextMesure <= MaxMesures
    /\ mesuresStored' = <<nextMesure>> \o mesuresStored
    /\ nextMesure' = nextMesure + 1
    /\ event' = Ev("mesure:analyser", <<>>, nextMesure, "", "")
    /\ UNCHANGED <<mesures, mesureAction, historique, mesureModalHidden,
                   mesureFormHidden, mesureNotification, histTimers>>
    /\ ParametresOnly

\* supprimerMesure(mesureId): the delete button of a measure of the list
SupprimerMesure ==
    /\ historique.kind = "list"
    /\ \E i \in 1..Len(historique.items) :
         /\ mesureAction' = [type |-> "supprimerMesure", id |-> historique.items[i],
                             statut |-> ""]
         /\ event' = Ev("mesure:supprimer", <<>>, historique.items[i], "", "")
    /\ mesureModalHidden' = FALSE
    /\ UNCHANGED <<mesuresStored, mesures, historique, mesureFormHidden,
                   mesureNotification, histTimers, nextMesure>>
    /\ ParametresOnly

\* mutant: the modal is hidden and the pending action is kept
FermerModalMesureKeepsAction ==
    /\ ~mesureModalHidden
    /\ mesureModalHidden' = TRUE
    /\ event' = Ev("mesure:fermerModal", <<>>, 0, "", "")
    /\ UNCHANGED <<mesuresStored, mesures, mesureAction, historique, mesureFormHidden,
                   mesureNotification, histTimers, nextMesure>>
    /\ ParametresOnly

\* fermerModal(): the cancel button of the modal and a click outside it
FermerModalMesure ==
    /\ ~mesureModalHidden
    /\ mesureModalHidden' = TRUE
    /\ mesureAction' = NoAction
    /\ event' = Ev("mesure:fermerModal", <<>>, 0, "", "")
    /\ UNCHANGED <<mesuresStored, mesures, historique, mesureFormHidden,
                   mesureNotification, histTimers, nextMesure>>
    /\ ParametresOnly

\* executerAction(), the confirm button's click listener: without a pending
\* action it returns at once; otherwise the measure is filtered out of local
\* storage, the success is notified, fermerModal() and chargerHistorique()
\* are called
ExecuterActionMesure ==
    /\ IF mesureAction = NoAction
       THEN /\ event' = Ev("mesure:executerAction", <<>>, 0, "ignored", "")
            /\ UNCHANGED <<mesuresStored, mesureAction, historique, mesureModalHidden,
                           mesureNotification, histTimers>>
       ELSE /\ histTimers < MaxHistTimers
            /\ mesuresStored' = SelectSeq(mesuresStored, LAMBDA m : m /= mesureAction.id)
            /\ mesureNotification' = Notif("success", "supprimerMesure")
            /\ mesureModalHidden' = TRUE
            /\ mesureAction' = NoAction
            /\ ChargerHistorique
            /\ event' = Ev("mesure:executerAction", <<>>, mesureAction.id, "done",
                           mesureAction.type)
    /\ UNCHANGED <<mesures, mesureFormHidden, nextMesure>>
    /\ ParametresOnly

\* the page once initialiserApp() has run, in a browser that holds no
\* measure yet: chargerHistorique()'s timer is pending
InitParametres ==
    /\ mesuresStored = <<>>
    /\ nextMesure = 1
    /\ mesures = <<>>
    /\ mesureAction = NoAction
    /\ historique = [kind |-> "loading", items |-> <<>>]
    /\ mesureModalHidden = TRUE
    /\ mesureFormHidden = TRUE
    /\ mesureNotification = Notif("", "")
    /\ histTimers = 1

NextParametres ==
    \/ RafraichirHistorique
    \/ HistoriqueTimer
    \/ AfficherFormulaireMesure
    \/ CacherFormulaireMesure
    \/ AnalyserParametres
    \/ SupprimerMesure
    \/ FermerModalMesure
    \/ ExecuterActionMesure

----------------------------------------------------------------------------
(* Site: the pages, the landing page's forms and the simulated login *)

Pages == {"index.html", "dashboard.html", "chat.html", "contrats.html",
          "parametres.html"}

\* no document loaded yet
Blank == "about:blank"

\* no navigation requested
NoNav == ""

\* the chat page's variables that only its own handlers change
chatRest == <<isWaitingForResponse, inputValue, inputDisabled, chatBox, lastMetrics,
              chatCalls, resetCalls, nextCall, nextReset, resetIds>>

\* the handlers of the site's pages leave the state of the chat,
\* disease-detection and contracts scripts alone, local storage apart
SiteOnly == UNCHANGED <<chatRest, dashVars, reportVars, contratVars, paramVars>>

\* const isAuth = localStorage.getItem('hydrocare_auth') === '1'
IsAuth == localStorage["hydrocare_auth"] = "1"

\* mutant: the disease-detection script's init() is not reached on the
\* dashboard, whose own DOMContentLoaded listener checks nothing
VerifiesAuthNotDashboard(p) == p \in {"chat.html", "contrats.html", "parametres.html"}

\* the pages whose DOMContentLoaded listeners call verifierAuthentification
VerifiesAuth(p) ==
    p \in {"dashboard.html", "chat.html", "contrats.html", "parametres.html"}

\* a new document: the modal closed, the forms pristine, no timer pending
FreshLanding ==
    /\ mode' = "closed"
    /\ inputs' = [n \in {"username", "email", "password"} |-> <<>>]
    /\ termsChecked' = FALSE
    /\ ariaInvalid' = {}
    /\ errorText' = [n \in {"username", "email", "password", "terms"} |-> ""]
    /\ submitDisabled' = FALSE
    /\ timers' = <<>>

\* the browser loads page p and runs its scripts to the end of its
\* DOMContentLoaded listeners: verifierAuthentification on a protected page,
\* showRedirectMessage on the landing page
LoadPage(op, p) ==
    /\ page' = p
    /\ FreshLanding
    /\ IF VerifiesAuth(p) /\ ~IsAuth
       THEN /\ redirectMsg' = p
            /\ pendingNav' = "index.html"
            /\ event' = Ev(op, <<>>, 0, "redirected", p)
       ELSE /\ redirectMsg' = IF p = "index.html" THEN NULL ELSE redirectMsg
            /\ pendingNav' = NoNav
            /\ event' = Ev(op, <<>>, 0, "shown", p)
    /\ sessionId' = IF p = "chat.html" THEN GetItemOrEmpty("hc_session_id")
                                       ELSE sessionId
    /\ UNCHANGED localStorage
    /\ SiteOnly

\* the user opens a page by its address
OpenPage == \E p \in Pages : LoadPage("open", p)

\* the navigation requested by window.location takes place
Navigate ==
    /\ pendingNav /= NoNav
    /\ LoadPage("navigate", pendingNav)

\* a handler of page p can run: p is shown and is not being replaced
Shown(p) == page = p /\ pendingNav = NoNav

landingVars == <<mode, inputs, termsChecked, ariaInvalid, errorText,
                 submitDisabled, timers>>

\* mutant: logout forgets the authentication flag
LogoutKeysUserOnly(p) == {"hydrocare_user"}

\* the keys removed by the click listeners of #logoutBtn on page p
LogoutKeys(p) ==
    IF p \in {"contrats.html", "parametres.html"}
    THEN {"hydrocare_auth", "hydrocare_user"}
    ELSE {"hydrocare_auth", "hydrocare_user", "hc_session_id"}

\* #logoutBtn 'click' listeners
Logout ==
    \E p \in Pages \ {"index.html"} :
        /\ Shown(p)
        /\ localStorage' = [k \in LSKeys |->
                IF k \in LogoutKeys(p) THEN NULL ELSE localStorage[k]]
        /\ pendingNav' = "index.html"
        /\ event' = Ev("logout", <<>>, 0, "", p)
        /\ UNCHANGED <<page, redirectMsg, sessionId, landingVars>>
        /\ SiteOnly

----------------------------------------------------------------------------
(* Landing page: the modal's forms *)

Modes == {"login", "register"}

\* the text inputs of the form shown, all of them required
TextInputs(m) ==
    IF m = "login" THEN {"email", "password"}
    ELSE IF m = "register" THEN {"username", "email", "password"}
    ELSE {}

\* form.querySelectorAll('input[required]')
RequiredInputs(m) == TextInputs(m) \cup (IF m = "register" THEN {"terms"} ELSE {})

\* what the user types: empty, and with a leading blank too short and valid
UsernameValues == {<<>>, <<" ", "a", "a">>, <<" ", "a", "a", "a">>}

\* empty, without a top-level domain, and well formed
EmailValues == {<<>>, <<"a", "@", "a">>, <<"b", "@", "a", ".", "a">>}

\* empty, five characters and six
PasswordValues == {<<>>, <<"a", "a", "a", "a", "a">>, <<"a", "a", "a", "a", "a", "a">>}

TypedValues(n) ==
    IF n = "username" THEN UsernameValues
    ELSE IF n = "email" THEN EmailValues ELSE PasswordValues

\* the characters of the values validateField is applied to
Alphabet == {"a", "@", ".", " "}

\* the character class [^@\s]
NotAtNorSpace(c) == c \notin {"@", " "}

\* /^[^@\s]+@[^@\s]+\.[^@\s]+$/.test(v)
EmailRegexTest(v) ==
    \E i, j \in 1..Len(v) :
        /\ 1 < i /\ i + 1 < j /\ j < Len(v)
        /\ v[i] = "@"
        /\ v[j] = "."
        /\ \A k \in (1..Len(v)) \ {i, j} : NotAtNorSpace(v[k])

\* mutant: the lengths are tested on the value as typed
ValidationMessageUntrimmed(n, raw) ==
    IF Trim(raw) = <<>> THEN "requis"
    ELSE IF n = "email" /\ ~EmailRegexTest(Trim(raw)) THEN "email"
    ELSE IF n = "password" /\ Len(raw) < 6 THEN "password"
    ELSE IF n = "username" /\ Len(raw) < 3 THEN "username"
    ELSE ""

\* validateField: the message of the first test that fails, "" when none does
ValidationMessage(n, raw) ==
    LET value == Trim(raw) IN
    IF value = <<>> THEN "requis"
    ELSE IF n = "email" /\ ~EmailRegexTest(value) THEN "email"
    ELSE IF n = "password" /\ Len(value) < 6 THEN "password"
    ELSE IF n = "username" /\ Len(value) < 3 THEN "username"
    ELSE ""

\* input.value: a checkbox without a value attribute reports "on"
InputValue(n) == IF n = "terms" THEN <<"o", "n">> ELSE inputs[n]

\* validateField(input) returns true
ValidateField(n) == ValidationMessage(n, InputValue(n)) = ""

\* mutant: the terms checkbox is not looked at
TermsMissingNever(m) == FALSE

\* if (terms && !terms.checked)
TermsMissing(m) == "terms" \in RequiredInputs(m) /\ ~termsChecked

\* validateForm(form) returns true
ValidateForm(m) ==
    /\ \A n \in RequiredInputs(m) : ValidateField(n)
    /\ ~TermsMissing(m)

\* the message validateForm leaves on input n: showError(terms, ...) comes
\* after validateField(terms)
FormMessage(m, n) ==
    IF n = "terms" /\ TermsMissing(m) THEN "terms"
    ELSE ValidationMessage(n, InputValue(n))

\* the controls of the form as validateForm leaves them: showError sets
\* aria-invalid and the message, clearError removes both
ValidateFormMarks(m) ==
    /\ ariaInvalid' = (ariaInvalid \ RequiredInputs(m))
                        \cup {n \in RequiredInputs(m) : FormMessage(m, n) /= ""}
    /\ errorText' = [n \in DOMAIN errorText |->
            IF n \in RequiredInputs(m) THEN FormMessage(m, n) ELSE errorText[n]]

\* String.prototype.split('@')[0]
RECURSIVE BeforeAt(_)
BeforeAt(s) ==
    IF s = <<>> \/ Head(s) = "@" THEN <<>>
    ELSE <<Head(s)>> \o BeforeAt(Tail(s))

\* the JavaScript string of a character sequence
RECURSIVE Str(_)
Str(s) == IF s = <<>> THEN "" ELSE Head(s) \o Str(Tail(s))

\* Object.fromEntries(new FormData(form))[n]; a control the form does not
\* have gives undefined, falsy like the empty string
FormData(m, n) == IF n \in TextInputs(m) THEN inputs[n] ELSE <<>>

\* mutant: the name is trimmed before it is stored
StoredUserTrimmed(m) ==
    IF FormData(m, "username") /= <<>> THEN Str(Trim(FormData(m, "username")))
    ELSE IF FormData(m, "email") /= <<>> THEN Str(BeforeAt(FormData(m, "email")))
    ELSE localStorage["hydrocare_user"]

\* hydrocare_user after the submission: data.username, else the start of
\* data.email, else what it was
StoredUser(m) ==
    IF FormData(m, "username") /= <<>> THEN Str(FormData(m, "username"))
    ELSE IF FormData(m, "email") /= <<>> THEN Str(BeforeAt(FormData(m, "email")))
    ELSE localStorage["hydrocare_user"]

\* openModal(mode), from #openLogin, #openLoginMobile or #ctaRegister
OpenModal ==
    /\ Shown("index.html")
    /\ mode = "closed"
    /\ \E m \in Modes :
         /\ mode' = m
         /\ event' = Ev("openModal", <<>>, 0, "", m)
    /\ UNCHANGED <<page, pendingNav, redirectMsg, inputs, termsChecked, ariaInvalid,
                   errorText, submitDisabled, timers, sessionId, localStorage>>
    /\ SiteOnly

\* closeModal: the forms are reset and every error is cleared
CloseModal ==
    /\ Shown("index.html")
    /\ mode /= "closed"
    /\ mode' = "closed"
    /\ inputs' = [n \in DOMAIN inputs |-> <<>>]
    /\ termsChecked' = FALSE
    /\ ariaInvalid' = {}
    /\ errorText' = [n \in DOMAIN errorText |-> ""]
    /\ event' = Ev("closeModal", <<>>, 0, "", mode)
    /\ UNCHANGED <<page, pendingNav, redirectMsg, submitDisabled, timers, sessionId,
                   localStorage>>
    /\ SiteOnly

\* clearError(input)
ClearError(n) ==
    /\ ariaInvalid' = ariaInvalid \ {n}
    /\ errorText' = [errorText EXCEPT ![n] = ""]

\* showError(input, message)
ShowFieldError(n, message) ==
    /\ ariaInvalid' = ariaInvalid \cup {n}
    /\ errorText' = [errorText EXCEPT ![n] = message]

\* the user types in a text input: its 'input' listener clears its error
TypeField ==
    /\ Shown("index.html")
    /\ \E n \in TextInputs(mode) : \E v \in TypedValues(n) :
         /\ v /= inputs[n]
         /\ inputs' = [inputs EXCEPT ![n] = v]
         /\ ClearError(n)
         /\ event' = Ev("input", v, 0, "", n)
    /\ UNCHANGED <<page, pendingNav, redirectMsg, mode, termsChecked, submitDisabled,
                   timers, sessionId, localStorage>>
    /\ SiteOnly

\* the user ticks or unticks the terms checkbox: same 'input' listener
ToggleTerms ==
    /\ Shown("index.html")
    /\ "terms" \in RequiredInputs(mode)
    /\ termsChecked' = ~termsChecked
    /\ ClearError("terms")
    /\ event' = Ev("input", <<>>, 0, "", "terms")
    /\ UNCHANGED <<page, pendingNav, redirectMsg, mode, inputs, submitDisabled,
                   timers, sessionId, localStorage>>
    /\ SiteOnly

\* 'blur' listener of a required input: validateField(input)
BlurField ==
    /\ Shown("index.html")
    /\ \E n \in RequiredInputs(mode) :
         /\ IF ValidateField(n)
            THEN ClearError(n)
            ELSE ShowFieldError(n, ValidationMessage(n, InputValue(n)))
         /\ event' = Ev("blur", InputValue(n), 0,
                        IF ValidateField(n) THEN "valid" ELSE "invalid", n)
    /\ UNCHANGED <<page, pendingNav, redirectMsg, mode, inputs, termsChecked,
                   submitDisabled, timers, sessionId, localStorage>>
    /\ SiteOnly

\* mutant: the handler goes on whatever validateForm returned
SubmissionBlockedNever(m) == FALSE

\* if (!validateForm(form)) { ...; return; }
SubmissionBlocked(m) == ~ValidateForm(m)

\* handleFormSubmit, 'submit' listener of both forms: the button is disabled
\* for 1500 ms by showFormSuccess, the redirection is due 1500 ms later
HandleFormSubmit ==
    /\ Shown("index.html")
    /\ mode \in Modes
    /\ ~submitDisabled
    /\ Len(timers) < 2 * MaxLogins
    /\ ValidateFormMarks(mode)
    /\ IF SubmissionBlocked(mode)
       THEN /\ event' = Ev("form_submit", <<>>, 0, "invalid", mode)
            /\ UNCHANGED <<localStorage, submitDisabled, timers>>
       ELSE /\ submitDisabled' = TRUE
            /\ localStorage' = [localStorage EXCEPT
                    !["hydrocare_auth"] = "1",
                    !["hydrocare_user"] = StoredUser(mode)]
            /\ timers' = timers \o <<"restore", "redirect">>
            /\ event' = Ev("form_submit", <<>>, 0, "ok", mode)
    /\ UNCHANGED <<page, pendingNav, redirectMsg, mode, inputs, termsChecked,
                   sessionId>>
    /\ SiteOnly

\* the oldest of the pending 1500 ms timers fires: the submit button is
\* enabled again, or window.location.href = 'dashboard.html'
TimerFires ==
    /\ Shown("index.html")
    /\ timers /= <<>>
    /\ timers' = Tail(timers)
    /\ IF Head(timers) = "restore"
       THEN submitDisabled' = FALSE /\ UNCHANGED pendingNav
       ELSE pendingNav' = "dashboard.html" /\ UNCHANGED submitDisabled
    /\ event' = Ev("timer", <<>>, 0, "", Head(timers))
    /\ UNCHANGED <<page, redirectMsg, mode, inputs, termsChecked, ariaInvalid,
                   errorText, sessionId, localStorage>>
    /\ SiteOnly

\* the site's variables before any page is loaded
InitLanding ==
    /\ page = Blank
    /\ pendingNav = NoNav
    /\ redirectMsg = NULL
    /\ mode = "closed"
    /\ inputs = [n \in {"username", "email", "password"} |-> <<>>]
    /\ termsChecked = FALSE
    /\ ariaInvalid = {}
    /\ errorText = [n \in {"username", "email", "password", "terms"} |-> ""]
    /\ submitDisabled = FALSE
    /\ timers = <<>>

\* the chat script's variables while its page is not in use
InitChatIdle ==
    /\ sessionId = ""
    /\ isWaitingForResponse = FALSE
    /\ inputValue = <<>>
    /\ inputDisabled = FALSE
    /\ chatBox = <<>>
    /\ lastMetrics = NoMetrics
    /\ chatCalls = {}
    /\ resetCalls = {}
    /\ nextCall = 1
    /\ nextReset = 1
    /\ resetIds = {}

\* a browser about to open the site: logged out, or logged in by an
\* earlier visit, with or without a chat session left in local storage
InitSite ==
    /\ \E loggedIn \in BOOLEAN : \E stored \in {NULL, StoredSid} :
         localStorage = [k \in LSKeys |->
            IF k = "hc_session_id" THEN stored
            ELSE IF ~loggedIn THEN NULL
            ELSE IF k = "hydrocare_auth" THEN "1" ELSE "user"]
    /\ InitChatIdle
    /\ InitDash
    /\ InitContrats
    /\ InitParametres
    /\ InitLanding
    /\ event = Ev("load", <<>>, 0, "", "")

\* every character sequence a field may hold, up to the bound
Values == UNION {[1..n -> Alphabet] : n \in 0..MaxValueLen}

\* the landing page with one of its forms shown and one field filled in,
\* untouched since the page was loaded or just after a refused submission
InitValidate ==
    /\ localStorage = [k \in LSKeys |-> NULL]
    /\ InitChatIdle
    /\ InitDash
    /\ InitContrats
    /\ InitParametres
    /\ page = "index.html"
    /\ pendingNav = NoNav
    /\ redirectMsg = NULL
    /\ submitDisabled = FALSE
    /\ timers = <<>>
    /\ termsChecked = FALSE
    /\ \E m \in Modes : \E n \in TextInputs(m) : \E v \in Values :
         /\ mode = m
         /\ inputs = [k \in {"username", "email", "password"} |->
                        IF k = n THEN v ELSE <<>>]
    /\ \E refused \in BOOLEAN :
         /\ ariaInvalid = IF refused
                THEN {n \in RequiredInputs(mode) : FormMessage(mode, n) /= ""}
                ELSE {}
         /\ errorText = [n \in {"username", "email", "password", "terms"} |->
                IF refused /\ n \in RequiredInputs(mode)
                THEN FormMessage(mode, n) ELSE ""]
    /\ event = Ev("load", <<>>, 0, "", "")

\* validateField alone, through the 'blur' listener
NextValidate == BlurField

NextSite ==
    \/ OpenPage
    \/ Navigate
    \/ Logout
    \/ OpenModal
    \/ CloseModal
    \/ TypeField
    \/ ToggleTerms
    \/ BlurField
    \/ HandleFormSubmit
    \/ TimerFires

----------------------------------------------------------------------------
(* Specifications: one page is open at a time *)

Init ==
    /\ InitChat
    /\ InitDash
    /\ InitContrats
    /\ InitParametres
    /\ InitLanding
    /\ event = Ev("load", <<>>, 0, "", "")

\* the contracts page or the parameters page, open and not being replaced,
\* in a browser that is logged in
InitConfirm ==
    /\ localStorage = [k \in LSKeys |->
            IF k = "hc_session_id" THEN NULL
            ELSE IF k = "hydrocare_auth" THEN "1" ELSE "user"]
    /\ InitChatIdle
    /\ InitDash
    /\ InitContrats
    /\ InitParametres
    /\ page \in {"contrats.html", "parametres.html"}
    /\ pendingNav = NoNav
    /\ redirectMsg = NULL
    /\ mode = "closed"
    /\ inputs = [n \in {"username", "email", "password"} |-> <<>>]
    /\ termsChecked = FALSE
    /\ ariaInvalid = {}
    /\ errorText = [n \in {"username", "email", "password", "terms"} |-> ""]
    /\ submitDisabled = FALSE
    /\ timers = <<>>
    /\ event = Ev("load", <<>>, 0, "", "")

\* the chat page, open and not being replaced, in a browser that is
\* logged in
InitChatPage ==
    /\ InitChat
    /\ InitDash
    /\ InitContrats
    /\ InitParametres
    /\ page = "chat.html"
    /\ pendingNav = NoNav
    /\ redirectMsg = NULL
    /\ mode = "closed"
    /\ inputs = [n \in {"username", "email", "password"} |-> <<>>]
    /\ termsChecked = FALSE
    /\ ariaInvalid = {}
    /\ errorText = [n \in {"username", "email", "password", "terms"} |-> ""]
    /\ submitDisabled = FALSE
    /\ timers = <<>>
    /\ event = Ev("load", <<>>, 0, "", "")

\* the handlers of the chat page, its logout button included, until the
\* page asked for by the logout has replaced it
NextChatPage ==
    \/ page = "chat.html" /\ NextChat
    \/ page = "chat.html" /\ Logout
    \/ page = "chat.html" /\ Navigate

\* the handlers of the page that is open
NextConfirm ==
    \/ page = "contrats.html" /\ NextContrats
    \/ page = "parametres.html" /\ NextParametres

SpecChat == Init /\ [][NextChat]_vars

SpecDash == Init /\ [][NextDash]_vars

SpecReports == Init /\ [][NextReports]_vars

SpecContrats == Init /\ [][NextContrats]_vars

SpecAuth == InitSite /\ [][NextSite]_vars

SpecValidate == InitValidate /\ [][NextValidate]_vars

SpecConfirm == InitConfirm /\ [][NextConfirm]_vars

SpecChatPage == InitChatPage /\ [][NextChatPage]_vars

----------------------------------------------------------------------------
(* Chat page: properties *)

SubmitOps == {"submit", "enter", "suggestion"}

StoredSessionId == localStorage["hc_session_id"]

\* C1: at most one /api/chat request is outstanding at any time, a request
\* is outstanding only while isWaitingForResponse is set, and while it is
\* set no step (form, Enter key, suggestion button) issues a request.
C1_OneChatOutstanding ==
    /\ [](Cardinality(chatCalls) <= 1 /\ (chatCalls /= {} => isWaitingForResponse))
    /\ [][isWaitingForResponse => chatCalls' \subseteq chatCalls]_vars

\* a suggestion button carrying a real question was clicked while the
\* request of another question was pending
C1_Witness ==
    /\ event.op = "suggestion"
    /\ Trim(event.q) /= <<>>
    /\ isWaitingForResponse
    /\ chatCalls /= {}
    /\ \A c \in chatCalls : c.question /= event.q

\* C2: a submission (form, Enter key, suggestion button) of an empty or
\* whitespace-only question issues no request and leaves the transcript,
\* the busy flag and the session identifier as they were.
C2_BlankQuestionNoEffect ==
    [][(event'.op \in SubmitOps /\ Trim(event'.q) = <<>>)
        => UNCHANGED <<chatCalls, resetCalls, chatBox, isWaitingForResponse,
                       inputDisabled, sessionId, localStorage>>]_vars

\* a whitespace-only question was submitted while no request was pending
C2_Witness ==
    /\ event.op \in SubmitOps
    /\ event.q = <<" ">>
    /\ ~isWaitingForResponse

\* C3: when the reset handler finishes, whatever the outcome of its request,
\* the identifier in memory is empty, hc_session_id is absent from local
\* storage and the transcript is empty.
C3_ResetClearsLocally ==
    event.op = "reset_done" =>
        /\ sessionId = ""
        /\ StoredSessionId = NULL
        /\ chatBox = <<>>

\* a reset handler finished after its request failed on the network
C3_Witness ==
    /\ event.op = "reset_done"
    /\ event.outcome = "network_error"
    /\ event.sid /= ""

\* C4: once a reset was triggered with an identifier in memory, no chat
\* request issued later carries that identifier and it is never written to
\* memory or to local storage again.
C4_ResetIdNeverReused ==
    [][/\ \A c \in chatCalls' \ chatCalls : c.session_id \notin resetIds
       /\ (sessionId' /= sessionId => sessionId' \notin resetIds)
       /\ (StoredSessionId' /= StoredSessionId => StoredSessionId' \notin resetIds)]_vars

\* C5: a chat response with a non-empty session_id is stored in memory and
\* under hc_session_id; every chat request carries the identifier in memory;
\* only such a response or the end of a reset changes it; a response echoing
\* the identifier in memory leaves memory and local storage as they were.
C5_SessionIdKept ==
    [][/\ (event'.op = "chat_settled" /\ event'.outcome = "ok" /\ event'.sid /= "")
            => (sessionId' = event'.sid /\ StoredSessionId' = event'.sid)
       /\ \A c \in chatCalls' \ chatCalls : c.session_id = sessionId'
       /\ (sessionId' /= sessionId)
            => \/ event'.op = "chat_settled" /\ event'.outcome = "ok" /\ event'.sid /= ""
               \/ event'.op = "reset_done"
       /\ (event'.op = "chat_settled" /\ event'.outcome = "ok"
             /\ event'.sid /= "" /\ event'.sid = sessionId)
            => UNCHANGED <<sessionId, localStorage>>]_vars

\* a request carries the identifier a response created earlier
C5_Witness ==
    \E c \in chatCalls :
        /\ c.session_id \notin {"", StoredSid}
        /\ c.session_id = sessionId
        /\ StoredSessionId = sessionId

\* C10: a chat request that fails (network error, error status) leaves the
\* identifier in memory and local storage as they were and adds exactly one
\* error message, as the last message of the transcript.
C10_ChatFailureKeepsSession ==
    [][(event'.op = "chat_settled" /\ event'.outcome \in {"network_error", "http_error"})
        => /\ UNCHANGED <<sessionId, localStorage>>
           /\ CountKind(chatBox', "error") = CountKind(chatBox, "error") + 1
           /\ CountKind(chatBox', "user") = CountKind(chatBox, "user")
           /\ CountKind(chatBox', "bot") = CountKind(chatBox, "bot")
           /\ chatBox'[Len(chatBox')].kind = "error"]_vars

\* a request failed on its HTTP status while a session was open
C10_Witness ==
    /\ event.op = "chat_settled"
    /\ event.outcome = "http_error"
    /\ sessionId /= ""
    /\ CountKind(chatBox, "error") = 1

\* C12: the step in which a chat request settles, with a response or with any
\* failure, clears the busy flag and enables the input field; the flag is
\* never set, nor the field disabled, while no chat request is outstanding.
C12_SettledRequestClearsBusy ==
    /\ [](chatCalls = {} => (~isWaitingForResponse /\ ~inputDisabled))
    /\ [][event'.op = "chat_settled"
            => (~isWaitingForResponse' /\ ~inputDisabled')]_vars

\* C18 as stated: a response without faithfulness or without completeness
\* has the placeholder N/A rendered for each missing score, and its answer
\* is the last message of the transcript.
C18_MissingScorePlaceholder ==
    (event.op = "chat_settled" /\ event.outcome = "ok")
        => (/\ ~lastMetrics.from[1].defined
                 => (lastMetrics.shown /\ lastMetrics.faithfulness = "N/A")
            /\ ~lastMetrics.from[2].defined
                 => (lastMetrics.shown /\ lastMetrics.completeness = "N/A")
            /\ chatBox[Len(chatBox)] = El("bot", event.id))

\* C18, amended: a response that has one score and lacks the other has N/A
\* rendered for the missing one; a response that lacks both has no metrics
\* block at all; in each case the answer is the last message of the
\* transcript and no error message is added for the request.
C18_MissingScoreHandled ==
    (event.op = "chat_settled" /\ event.outcome = "ok")
        => (/\ (~lastMetrics.from[1].defined /\ lastMetrics.from[2].defined)
                 => (lastMetrics.shown /\ lastMetrics.faithfulness = "N/A")
            /\ (~lastMetrics.from[2].defined /\ lastMetrics.from[1].defined)
                 => (lastMetrics.shown /\ lastMetrics.completeness = "N/A")
            /\ (~lastMetrics.from[1].defined /\ ~lastMetrics.from[2].defined)
                 => ~lastMetrics.shown
            /\ chatBox[Len(chatBox)] = El("bot", event.id)
            /\ El("error", event.id) \notin {chatBox[i] : i \in 1..Len(chatBox)})

C18_Witness ==
    /\ event.op = "chat_settled"
    /\ event.outcome = "ok"
    /\ lastMetrics.from = <<Undefined, Score(5)>>
    /\ lastMetrics.shown
    /\ lastMetrics.faithfulness = "N/A"
    /\ lastMetrics.completeness = "5"

\* the scores a metrics block can show
ShownScores == {ToString(n) : n \in 1..5}

C12_Witness ==
    /\ event.op = "chat_settled"
    /\ event.outcome \in {"network_error", "bad_json"}
    /\ chatCalls = {}
    /\ ~isWaitingForResponse
    /\ ~inputDisabled

\* C24: while the chat page is the document shown, between any two of its
\* handlers the identifier in memory is the value stored under
\* hc_session_id, and is empty when the key is absent.
C24_MemoryMatchesStorage ==
    page = "chat.html" =>
        sessionId = (IF StoredSessionId = NULL THEN "" ELSE StoredSessionId)

----------------------------------------------------------------------------
(* Disease detection: properties *)

\* C6: an image larger than 10MB never becomes the current image and is
\* never sent in an /analyze request.
C6_OversizedImageRejected ==
    /\ currentImageFile.size <= 10 * 1024 * 1024
    /\ \A a \in analyzeCalls : a.image.size <= 10 * 1024 * 1024

\* an image one byte over the limit was selected or dropped after the image
\* of exactly the limit had been accepted, and was refused
C6_Witness ==
    /\ event.op \in {"select", "drop"}
    /\ event.sid = "big.png"
    /\ currentImageFile.name = "limit.png"
    /\ results = Panel("error", "")

\* C7: after a failed health probe no /analyze request is issued.
C7_NoAnalyzeAfterFailedProbe ==
    [][health = "failed" => analyzeCalls' \subseteq analyzeCalls]_vars

\* C8: at most one /analyze request is outstanding at any time.
C8_OneAnalyzeOutstanding == Cardinality(analyzeCalls) <= 1

\* C14: after any sequence of saveReport operations hc_analysis_history holds
\* at most 10 reports, which are the ones saved last, the newest first.
C14_HistoryCappedNewestFirst ==
    /\ Len(analysisHistory) <= HistoryCap
    /\ Len(analysisHistory) = (IF nextStamp - 1 < HistoryCap THEN nextStamp - 1
                                                             ELSE HistoryCap)
    /\ \A i \in 1..Len(analysisHistory) :
          analysisHistory[i].timestamp = nextStamp - i

C14_Witness ==
    /\ event.op = "saveReport"
    /\ event.outcome = "saved"
    /\ nextStamp > HistoryCap + 2
    /\ Len(analysisHistory) = HistoryCap

\* C26: every report saved while the results panel was displayed records
\* the result of an analysis, and that analysis is the one of the image the
\* report names.
C26_ReportHoldsResultOfItsImage ==
    \A i \in 1..Len(analysisHistory) :
        analysisHistory[i].disease /= "placeholder"
            => (/\ analysisHistory[i].disease = "result"
                /\ analysisHistory[i].shown = analysisHistory[i].image)

----------------------------------------------------------------------------
(* Contracts page: properties *)

\* the POST, DELETE and PUT requests that have not settled yet
MutatingOutstanding ==
    {c \in ctrCalls : c.stage = "fetch" /\ c.verb \in MutatingVerbs}

\* C9: at most one contract-mutating request (create, delete or status
\* change) is outstanding at a time.
C9_OneMutationOutstanding == Cardinality(MutatingOutstanding) <= 1

\* C11: a creation that fails (rejected fetch, or a body without success)
\* leaves #contratsListe and state.contrats as they were when the form was
\* submitted; stated for a creation that was the only request of the page
\* from its submission to its failure, so that nothing else redraws the list.
C11_FailedCreationKeepsList ==
    [][\A sub \in submissions :
          (/\ event'.op = "create_settled"
           /\ event'.id = sub.id
           /\ event'.outcome /= "success"
           /\ sub.alone
           /\ nextCtrCall = sub.id + 1)
          => (liste' = sub.liste /\ contrats' = sub.contrats)]_vars

\* C21: when a confirmed delete or status change comes to its end while the
\* details of the contract it was about are displayed, the details panel is
\* hidden, state.contratSelectionne is null and no notification is added.
C21_ActionOnShownContractHidesDetails ==
    [][\A c \in ctrCalls :
          (/\ event'.op = "action_done"
           /\ event'.id = c.id
           /\ c.fn = "executerAction" /\ c.stage = "reload"
           /\ ~detailsHidden
           /\ contratSelectionne = c.target)
          => (/\ detailsHidden'
              /\ contratSelectionne' = NoContrat
              /\ notification' = notification)]_vars

\* C22: when the DELETE or PUT of a confirmed action settles, the success
\* notification is shown only if the service accepted the request; an error
\* status is announced by the error notification, like a rejected fetch.
C22_SuccessOnlyWhenAccepted ==
    [][event'.op = "action_settled"
         => (/\ notification'.type = "success" => event'.outcome = "ok"
             /\ event'.outcome = "http_error" => notification'.type = "error")]_vars

\* C23: a DELETE or PUT request is sent, and a measure leaves
\* hydrocare_mesures, only by a click on the confirm button while an action
\* is pending; closing the modal (cancel button, click outside) clears the
\* pending action; a confirm click without a pending action changes nothing.
C23_DestructiveOnlyAfterConfirm ==
    [][/\ (\E c \in ctrCalls' \ ctrCalls : c.verb \in {"DELETE", "PUT"})
            => (event'.op = "executerAction" /\ actionEnCours /= NoAction)
       /\ (\E i \in 1..Len(mesuresStored) :
               \A k \in 1..Len(mesuresStored') : mesuresStored'[k] /= mesuresStored[i])
            => (event'.op = "mesure:executerAction" /\ mesureAction /= NoAction)
       /\ event'.op = "fermerModal" => actionEnCours' = NoAction
       /\ event'.op = "mesure:fermerModal" => mesureAction' = NoAction
       /\ (event'.op = "executerAction" /\ actionEnCours = NoAction)
            => UNCHANGED <<contratVars, paramVars, localStorage>>
       /\ (event'.op = "mesure:executerAction" /\ mesureAction = NoAction)
            => UNCHANGED <<contratVars, paramVars, localStorage>>]_vars

\* the confirm button of the parameters page was clicked while no action
\* was pending and the measures in local storage were listed
C23_Witness ==
    /\ page = "parametres.html"
    /\ event.op = "mesure:executerAction"
    /\ event.outcome = "ignored"
    /\ mesureAction = NoAction
    /\ mesureModalHidden
    /\ historique.kind = "list"
    /\ historique.items = mesuresStored
    /\ mesuresStored /= <<>>

----------------------------------------------------------------------------
(* Site: properties *)

\* number of occurrences of character c in s
Occurrences(s, c) == Cardinality({i \in 1..Len(s) : s[i] = c})

\* local@domain.tld: one "@", no blank, a local part, and after the "@" a
\* dot with at least one character on each side
WellFormedEmail(s) ==
    /\ Occurrences(s, "@") = 1
    /\ Occurrences(s, " ") = 0
    /\ s[1] /= "@"
    /\ \E j \in 1..Len(s) :
         /\ s[j] = "."
         /\ j < Len(s)
         /\ \E i \in 1..(j - 2) : s[i] = "@"

\* the rule of field n that value s, once trimmed, has to meet
MeetsRule(n, s) ==
    /\ Trim(s) /= <<>>
    /\ n = "email" => WellFormedEmail(Trim(s))
    /\ n = "password" => Len(Trim(s)) >= 6
    /\ n = "username" => Len(Trim(s)) >= 3

\* the form shown has a field that breaks its rule, or required terms
\* that are not ticked
SomeRuleBroken ==
    \/ \E n \in TextInputs(mode) : ~MeetsRule(n, inputs[n])
    \/ (mode = "register" /\ ~termsChecked)

\* C13: a login or register submission with an empty required field, a
\* malformed email, a password shorter than 6, a username shorter than 3 or
\* unticked required terms writes nothing to local storage (hydrocare_auth
\* and hydrocare_user stay as they were) and schedules no redirection.
C13_InvalidSubmissionBlocked ==
    [][(event'.op = "form_submit" /\ SomeRuleBroken)
        => (/\ localStorage' = localStorage
            /\ timers' = timers
            /\ pendingNav' = pendingNav
            /\ page' = page)]_vars

C13_Witness ==
    /\ event.op = "form_submit"
    /\ mode = "register"
    /\ \A n \in TextInputs(mode) : MeetsRule(n, inputs[n])
    /\ ~termsChecked
    /\ "terms" \in ariaInvalid
    /\ localStorage["hydrocare_auth"] = NULL
    /\ timers = <<>>

\* C15: when the dashboard page is loaded while hydrocare_auth is not '1',
\* its scripts ask for index.html, and that is the page loaded next.
C15_DashboardRedirectsHome ==
    /\ [][(event'.op \in {"open", "navigate"} /\ event'.sid = "dashboard.html"
              /\ localStorage["hydrocare_auth"] /= "1")
            => (page' = "dashboard.html" /\ pendingNav' = "index.html")]_vars
    /\ [][(page = "dashboard.html" /\ pendingNav = "index.html"
              /\ event'.op = "navigate")
            => (page' = "index.html" /\ pendingNav' = NoNav)]_vars

C15_Witness ==
    /\ event.op = "open"
    /\ event.outcome = "redirected"
    /\ page = "dashboard.html"
    /\ localStorage["hydrocare_auth"] = NULL
    /\ pendingNav = "index.html"
    /\ redirectMsg = "dashboard.html"

\* position of the first "@" of s, Len(s) + 1 when it has none
FirstAt(s) ==
    IF \E i \in 1..Len(s) : s[i] = "@"
    THEN CHOOSE i \in 1..Len(s) : s[i] = "@" /\ \A k \in 1..(i - 1) : s[k] /= "@"
    ELSE Len(s) + 1

\* the name a submission of the form shown gives: the username typed or,
\* when the form has none, what precedes the "@" of the email
SubmittedName ==
    IF "username" \in TextInputs(mode) /\ inputs["username"] /= <<>>
    THEN Str(inputs["username"])
    ELSE Str(SubSeq(inputs["email"], 1, FirstAt(inputs["email"]) - 1))

\* C16: a login or register submission that breaks no rule sets hydrocare_auth
\* to '1', stores the submitted username, or without one the part of the
\* email before '@', as hydrocare_user and schedules the redirection; when
\* its timer fires dashboard.html is asked for, and that page is then shown.
C16_LoginStoresUserAndRedirects ==
    /\ [][(event'.op = "form_submit" /\ ~SomeRuleBroken)
            => (/\ localStorage'["hydrocare_auth"] = "1"
                /\ localStorage'["hydrocare_user"] = SubmittedName
                /\ timers' = timers \o <<"restore", "redirect">>)]_vars
    /\ [][(event'.op = "timer" /\ event'.sid = "redirect")
            => pendingNav' = "dashboard.html"]_vars
    /\ [][(event'.op = "navigate" /\ pendingNav = "dashboard.html")
            => (page' = "dashboard.html" /\ pendingNav' = NoNav)]_vars

C16_Witness ==
    /\ event.op = "navigate"
    /\ event.outcome = "shown"
    /\ page = "dashboard.html"
    /\ pendingNav = NoNav
    /\ localStorage["hydrocare_auth"] = "1"
    /\ localStorage["hydrocare_user"] = "b"

\* C17: a logout, on whichever page, removes hydrocare_auth and
\* hydrocare_user and asks for index.html; no protected page stays shown
\* while hydrocare_auth is absent, so that one loaded after a logout and
\* before a new login is replaced by the home page.
C17_LogoutClosesProtectedPages ==
    /\ [][event'.op = "logout"
            => (/\ localStorage'["hydrocare_auth"] = NULL
                /\ localStorage'["hydrocare_user"] = NULL
                /\ pendingNav' = "index.html")]_vars
    /\ [](\A p \in Pages \ {"index.html"} :
            (page = p /\ localStorage["hydrocare_auth"] /= "1")
                => pendingNav = "index.html")
    /\ [][(pendingNav = "index.html" /\ event'.op = "navigate")
            => page' = "index.html"]_vars

C17_Witness ==
    /\ event.op = "logout"
    /\ page = "contrats.html"
    /\ localStorage["hydrocare_auth"] = NULL
    /\ localStorage["hydrocare_user"] = NULL
    /\ localStorage["hc_session_id"] = StoredSid
    /\ pendingNav = "index.html"

\* C25: every logout, from whichever page, leaves hc_session_id absent from
\* local storage.
C25_LogoutForgetsChatSession ==
    [][event'.op = "logout" => localStorage'["hc_session_id"] = NULL]_vars

\* C20: validateField accepts a field exactly when its trimmed value is not
\* empty and meets the rule of its name (email: local@domain.tld without blank
\* or second '@'; password: 6 characters or more; username: 3 or more); a
\* rejected field carries aria-invalid and a message, an accepted one neither.
C20_ValidateFieldRules ==
    [][event'.op = "blur"
        => (/\ (event'.outcome = "valid") <=> MeetsRule(event'.sid, event'.q)
            /\ ~MeetsRule(event'.sid, event'.q)
                 => (event'.sid \in ariaInvalid' /\ errorText'[event'.sid] /= "")
            /\ MeetsRule(event'.sid, event'.q)
                 => (event'.sid \notin ariaInvalid' /\ errorText'[event'.sid] = ""))]_vars

C20_Witness ==
    /\ event.op = "blur"
    /\ event.sid = "email"
    /\ event.q = <<" ", "a", "@", "a", ".", "a">>
    /\ event.outcome = "valid"
    /\ "email" \notin ariaInvalid
    /\ errorText["email"] = ""

====
